---- MODULE Spec2Model ----
(***************************************************************************)
(* brain-app: the REST API of src/src/index.ts over the mongoose models of *)
(* src/src/db.ts.  Every request is a process that runs its handler from   *)
(* one store operation (await) to the next; the stores are shared.         *)
(* Strings are sequences of one-character strings, so that trimming and    *)
(* the link pattern are computed, not assumed.                             *)
(***************************************************************************)
EXTENDS Integers, Sequences, FiniteSets, TLC

VARIABLES users, contents, links, files, nextId, clock, req, pc, local, resp, before

vars == <<users, contents, links, files, nextId, clock, req, pc, local, resp, before>>

(***************************************************************************)
(* Bounds of the model.                                                    *)
(***************************************************************************)
\* requests of one behaviour when requests overlap
NReq == 2
\* requests of one behaviour when they are handled one after the other
NSeq == 4
\* requests that may be between their first and last store operation at once
MaxInFlight == 2
\* symbols of `options` that Math.random() reaches in the model (62 in the code)
AlphabetSize == 2
\* values Date.now() takes in the model
MaxClock == 1

Reqs == 1..(IF NReq > NSeq THEN NReq ELSE NSeq)

(***************************************************************************)
(* JavaScript values.                                                      *)
(***************************************************************************)
\* the value of a body field that was not sent
Undefined == <<"undefined">>

IsSpace(c) == c \in {" ", "\t", "\n"}

RECURSIVE TrimStart(_)
TrimStart(s) == IF s = <<>> THEN s
                ELSE IF IsSpace(Head(s)) THEN TrimStart(Tail(s)) ELSE s

RECURSIVE TrimEnd(_)
TrimEnd(s) == IF s = <<>> THEN s
              ELSE IF IsSpace(s[Len(s)]) THEN TrimEnd(SubSeq(s, 1, Len(s) - 1)) ELSE s

\* String.prototype.trim
Trim(s) == TrimEnd(TrimStart(s))

\* v is truthy: neither undefined nor the empty string
Truthy(v) == v # Undefined /\ v # <<>>

\* v?.trim() || ''
TrimOrEmpty(v) == IF v = Undefined THEN <<>> ELSE Trim(v)

StartsWith(s, p) == Len(s) >= Len(p) /\ SubSeq(s, 1, Len(p)) = p

\* /^https?:\/\/.+/.test(v)
LinkPattern(v) ==
    \/ StartsWith(v, <<"h","t","t","p",":","/","/">>) /\ Len(v) > 7
    \/ StartsWith(v, <<"h","t","t","p","s",":","/","/">>) /\ Len(v) > 8

(***************************************************************************)
(* utils.ts                                                                *)
(***************************************************************************)
options == << "A","B","C","D","E","F","G","H","I","J","K","L","M",
              "N","O","P","Q","R","S","T","U","V","W","X","Y","Z",
              "a","b","c","d","e","f","g","h","i","j","k","l","m",
              "n","o","p","q","r","s","t","u","v","w","x","y","z",
              "0","1","2","3","4","5","6","7","8","9" >>

\* length of the share token: random(10) in the code
HashLen == 1

\* the strings random(len) can return: len symbols, each any reachable option
random(len) == { [i \in 1..len |-> options[ix[i]]] : ix \in [1..len -> 1..AlphabetSize] }

(***************************************************************************)
(* db.ts: the documents of the three collections.                          *)
(***************************************************************************)
UserIds == {"u1", "u2"}

\* the accounts that exist once both users have signed up
RegisteredUsers ==
    { [id |-> "u1", username |-> <<"a","l","i","c","e">>, password |-> "bcrypt1"],
      [id |-> "u2", username |-> <<"b","o","b","b","y">>, password |-> "bcrypt2"] }

NoUser == [id |-> "none", username |-> <<>>, password |-> ""]

\* UserModel.findById
UserFindById(id) ==
    IF \E u \in users : u.id = id THEN CHOOSE u \in users : u.id = id ELSE NoUser

NoLink == [hash |-> <<>>, userId |-> "none"]

\* variant: the lookup never matches (a filter on a field the schema lacks)
LinkFindOneByUserNoMatch(userId) == NoLink

\* LinkModel.findOne({ userId })
LinkFindOneByUser(userId) ==
    IF \E l \in links : l.userId = userId
    THEN CHOOSE l \in links : l.userId = userId ELSE NoLink

\* variant: an empty filter, which matches any record
LinkFindOneByHashAny(hash) ==
    IF links # {} THEN CHOOSE l \in links : TRUE ELSE NoLink

\* LinkModel.findOne({ hash })
LinkFindOneByHash(hash) ==
    IF \E l \in links : l.hash = hash
    THEN CHOOSE l \in links : l.hash = hash ELSE NoLink

\* variant: no unique index on hash
LinkInsertAllowedUserOnly(doc) == \A l \in links : l.userId # doc.userId

\* variant: no unique index on userId
LinkInsertAllowedHashOnly(doc) == \A l \in links : l.hash # doc.hash

\* LinkSchema: hash and userId are both `unique: true`; an insert that
\* repeats either value is refused by the index (duplicate key error)
LinkInsertAllowed(doc) ==
    /\ \A l \in links : l.hash # doc.hash
    /\ \A l \in links : l.userId # doc.userId

\* variant: an empty filter, which deletes any one record
LinkDeleteOneAny(userId) ==
    IF links # {} THEN links \ {CHOOSE l \in links : TRUE} ELSE links

\* LinkModel.deleteOne({ userId })
LinkDeleteOne(userId) ==
    IF \E l \in links : l.userId = userId
    THEN links \ {CHOOSE l \in links : l.userId = userId} ELSE links

\* variant: no owner filter
ContentFindByUserAll(userId) == contents

\* ContentModel.find({ userId })
ContentFindByUser(userId) == { c \in contents : c.userId = userId }

(***************************************************************************)
(* middleware.ts                                                           *)
(***************************************************************************)
\* a bearer token: the signed payload and whether the signature verifies
NoToken == <<>>
TokenOf(u) == <<u, "signed">>
ForgedToken(u) == <<u, "forged">>

\* variant: the payload is decoded without verifying the signature
userMiddlewareNoVerify(token) ==
    IF token = NoToken THEN [status |-> 401, userId |-> "none"]
    ELSE [status |-> 0, userId |-> token[1]]

\* userMiddleware: 401 without a token, 403 when jwt.verify throws, else
\* the decoded userId is attached to the request
userMiddleware(token) ==
    IF token = NoToken THEN [status |-> 401, userId |-> "none"]
    ELSE IF token[2] # "signed" THEN [status |-> 403, userId |-> "none"]
    ELSE [status |-> 0, userId |-> token[1]]

(***************************************************************************)
(* Requests, their handler-local values and their responses.               *)
(***************************************************************************)
NoFile == [originalname |-> <<>>, mimetype |-> "", size |-> 0]

NoReq == [op |-> "none", token |-> NoToken, share |-> "undefined", hash |-> <<>>,
          title |-> Undefined, type |-> Undefined, link |-> Undefined,
          description |-> Undefined, file |-> NoFile,
          contentId |-> 0, username |-> Undefined, password |-> Undefined]

\* the result of a ContentModel.findOne that matched nothing
NoContent == [id |-> 0, userId |-> "none", title |-> <<>>, type |-> Undefined,
              link |-> Undefined, description |-> <<>>, fileName |-> Undefined,
              filePath |-> Undefined, fileSize |-> -1, tags |-> {}]

NoLocal == [userId |-> "none", hash |-> <<>>, link |-> NoLink, content |-> {},
            path |-> Undefined, doc |-> NoContent, unlinkFailed |-> FALSE,
            hashedPassword |-> <<>>]

\* sentFile is the path of the file that res.sendFile streamed
NoResp == [status |-> 0, message |-> "", shareLink |-> <<>>, username |-> <<>>,
           content |-> {}, data |-> 0, sentFile |-> Undefined]

Respond(status, message) == [NoResp EXCEPT !.status = status, !.message = message]

\* the values of the body field `share`; JSON true and a non-empty string
\* are truthy, false and a missing field are falsy
ShareTruthy(share) == share \in {"true", "string"}

InFlight == { r \in Reqs : pc[r] \notin {"idle", "done"} }

\* slot r takes the next incoming request (slots are used in order)
CanReceive(r) ==
    /\ pc[r] = "idle"
    /\ \A q \in Reqs : q < r => pc[q] # "idle"

\* the server is handling fewer than n requests
Admit(n) == Cardinality(InFlight) < n

Done(r) == pc[r] = "done"

\* a protected route: the middleware answers, or hands over to the handler
Receive(r, request, handlerPc) ==
    LET auth == userMiddleware(request.token) IN
    /\ CanReceive(r)
    /\ req' = [req EXCEPT ![r] = request]
    /\ before' = [before EXCEPT ![r] = { q \in Reqs : Done(q) }]
    /\ IF auth.status = 401
       THEN /\ pc' = [pc EXCEPT ![r] = "done"]
            /\ resp' = [resp EXCEPT ![r] = Respond(401, "Access token missing")]
            /\ UNCHANGED local
       ELSE IF auth.status = 403
       THEN /\ pc' = [pc EXCEPT ![r] = "done"]
            /\ resp' = [resp EXCEPT ![r] = Respond(403, "Invalid or expired token")]
            /\ UNCHANGED local
       ELSE /\ pc' = [pc EXCEPT ![r] = handlerPc]
            /\ local' = [local EXCEPT ![r] = [NoLocal EXCEPT !.userId = auth.userId]]
            /\ UNCHANGED resp

(***************************************************************************)
(* POST /api/v1/brain/share                                                *)
(***************************************************************************)
ShareRequest(token, share) == [NoReq EXCEPT !.op = "share", !.token = token, !.share = share]

\* the request arrives; `if (share)` selects the branch
ShareReceive(r, tokens, shares) ==
    /\ CanReceive(r)
    /\ \E t \in tokens, s \in shares :
          Receive(r, ShareRequest(t, s),
                  IF ShareTruthy(s) THEN "share_findOne" ELSE "share_deleteOne")
    /\ UNCHANGED <<users, contents, links, files, nextId, clock>>

\* await LinkModel.findOne({ userId }); an existing link is returned as it is
ShareFindOne(r) ==
    LET existingLink == LinkFindOneByUser(local[r].userId) IN
    /\ pc[r] = "share_findOne"
    /\ IF existingLink # NoLink
       THEN /\ pc' = [pc EXCEPT ![r] = "done"]
            /\ resp' = [resp EXCEPT ![r] =
                  [Respond(200, "Share link already exists")
                      EXCEPT !.shareLink = existingLink.hash]]
            /\ UNCHANGED local
       ELSE /\ \E hash \in random(HashLen) :
                  local' = [local EXCEPT ![r].hash = hash]
            /\ pc' = [pc EXCEPT ![r] = "share_create"]
            /\ UNCHANGED resp
    /\ UNCHANGED <<users, contents, links, files, nextId, clock, req, before>>

\* await LinkModel.create({ userId, hash }); a duplicate key error is caught
ShareCreate(r) ==
    LET doc == [hash |-> local[r].hash, userId |-> local[r].userId] IN
    /\ pc[r] = "share_create"
    /\ pc' = [pc EXCEPT ![r] = "done"]
    /\ IF LinkInsertAllowed(doc)
       THEN /\ links' = links \cup {doc}
            /\ resp' = [resp EXCEPT ![r] =
                  [Respond(200, "Share link created successfully")
                      EXCEPT !.shareLink = local[r].hash]]
       ELSE /\ links' = links
            /\ resp' = [resp EXCEPT ![r] =
                  Respond(500, "An error occurred while updating the share link")]
    /\ UNCHANGED <<users, contents, files, nextId, clock, req, local, before>>

\* await LinkModel.deleteOne({ userId })
ShareDeleteOne(r) ==
    /\ pc[r] = "share_deleteOne"
    /\ links' = LinkDeleteOne(local[r].userId)
    /\ pc' = [pc EXCEPT ![r] = "done"]
    /\ resp' = [resp EXCEPT ![r] = Respond(200, "Share link removed successfully")]
    /\ UNCHANGED <<users, contents, files, nextId, clock, req, local, before>>

(***************************************************************************)
(* GET /api/v1/brain/:shareLink (no middleware)                            *)
(***************************************************************************)
BrainRequest(hash) == [NoReq EXCEPT !.op = "brain", !.hash = hash]

BrainReceive(r, hashes) ==
    /\ CanReceive(r)
    /\ \E h \in hashes : req' = [req EXCEPT ![r] = BrainRequest(h)]
    /\ before' = [before EXCEPT ![r] = { q \in Reqs : Done(q) }]
    /\ pc' = [pc EXCEPT ![r] = "brain_findLink"]
    /\ local' = [local EXCEPT ![r] = NoLocal]
    /\ UNCHANGED <<users, contents, links, files, nextId, clock, resp>>

\* await LinkModel.findOne({ hash })
BrainFindLink(r) ==
    LET link == LinkFindOneByHash(req[r].hash) IN
    /\ pc[r] = "brain_findLink"
    /\ IF link = NoLink
       THEN /\ pc' = [pc EXCEPT ![r] = "done"]
            /\ resp' = [resp EXCEPT ![r] = Respond(411, "Sorry, input is invalid")]
            /\ UNCHANGED local
       ELSE /\ pc' = [pc EXCEPT ![r] = "brain_findContent"]
            /\ local' = [local EXCEPT ![r].link = link]
            /\ UNCHANGED resp
    /\ UNCHANGED <<users, contents, links, files, nextId, clock, req, before>>

\* await ContentModel.find({ userId: link.userId })
BrainFindContent(r) ==
    /\ pc[r] = "brain_findContent"
    /\ local' = [local EXCEPT ![r].content = ContentFindByUser(local[r].link.userId)]
    /\ pc' = [pc EXCEPT ![r] = "brain_findUser"]
    /\ UNCHANGED <<users, contents, links, files, nextId, clock, req, resp, before>>

\* await UserModel.findById(link.userId)
BrainFindUser(r) ==
    LET user == UserFindById(local[r].link.userId) IN
    /\ pc[r] = "brain_findUser"
    /\ pc' = [pc EXCEPT ![r] = "done"]
    /\ resp' = [resp EXCEPT ![r] =
          IF user = NoUser THEN Respond(411, "User not found")
          ELSE [Respond(200, "") EXCEPT !.username = user.username,
                                        !.content = local[r].content]]
    /\ UNCHANGED <<users, contents, links, files, nextId, clock, req, local, before>>

(***************************************************************************)
(* POST /api/v1/content: userMiddleware, upload.single('file'), handler.   *)
(***************************************************************************)
ContentRequest(token, title, type, link, description, file) ==
    [NoReq EXCEPT !.op = "content", !.token = token, !.title = title, !.type = type,
                  !.link = link, !.description = description, !.file = file]

ContentReceive(r, requests) ==
    /\ CanReceive(r)
    /\ \E request \in requests : Receive(r, request, "content_upload")
    /\ UNCHANGED <<users, contents, links, files, nextId, clock>>

allowedTypes == {"application/pdf", "application/msword",
    "application/vnd.openxmlformats-officedocument.wordprocessingml.document",
    "application/vnd.ms-powerpoint",
    "application/vnd.openxmlformats-officedocument.presentationml.presentation"}

\* limits: { fileSize: 10 * 1024 * 1024 }
fileSizeLimit == 10 * 1024 * 1024

\* destination 'uploads/documents/', filename Date.now() + '-' + originalname
UploadPath(now, originalname) ==
    <<"uploads/documents/", ToString(now), "-">> \o originalname

\* multer: a rejected file (fileFilter, size limit) is an error that the
\* handler never sees (express answers 500); an accepted file is written to
\* disk before the handler runs
ContentUpload(r) ==
    LET file == req[r].file IN
    /\ pc[r] = "content_upload"
    /\ IF file = NoFile
       THEN /\ pc' = [pc EXCEPT ![r] = "content_handler"]
            /\ UNCHANGED <<files, clock, local, resp>>
       ELSE IF file.mimetype \notin allowedTypes
       THEN /\ pc' = [pc EXCEPT ![r] = "done"]
            /\ resp' = [resp EXCEPT ![r] =
                  Respond(500, "Only PDF, DOC, DOCX, PPT, PPTX files allowed")]
            /\ UNCHANGED <<files, clock, local>>
       ELSE IF file.size > fileSizeLimit
       THEN /\ pc' = [pc EXCEPT ![r] = "done"]
            /\ resp' = [resp EXCEPT ![r] = Respond(500, "File too large")]
            /\ UNCHANGED <<files, clock, local>>
       ELSE /\ \E now \in clock..MaxClock :
                  /\ clock' = now
                  /\ files' = files \cup {UploadPath(now, file.originalname)}
                  /\ local' = [local EXCEPT ![r].path = UploadPath(now, file.originalname)]
            /\ pc' = [pc EXCEPT ![r] = "content_handler"]
            /\ UNCHANGED resp
    /\ UNCHANGED <<users, contents, links, nextId, req, before>>

validTypes == {<<"linkedin">>, <<"twitter">>, <<"instagram">>, <<"youtube">>,
               <<"pinterest">>, <<"documents">>, <<"other">>}

socialTypes == {<<"linkedin">>, <<"twitter">>, <<"instagram">>, <<"youtube">>,
                <<"pinterest">>}

\* variant: the type is not compared with validTypes
HandlerValidationAnyType(request, uploaded) ==
    IF ~Truthy(request.title) \/ ~Truthy(request.type)
    THEN "Title and type are required"
    ELSE IF request.type = <<"documents">> /\ ~uploaded /\ ~Truthy(request.link)
    THEN "For documents: either upload a file OR provide a link"
    ELSE IF request.type = <<"other">> /\ ~Truthy(request.link)
            /\ ~Truthy(request.description)
    THEN "For other type: either link OR description is required"
    ELSE IF request.type \notin {<<"documents">>, <<"other">>}
            /\ (~Truthy(request.link) \/ ~Truthy(request.description))
    THEN "For social media types: title, link, and description are all required"
    ELSE ""

\* the checks of the handler before it builds the record; "" when all pass
HandlerValidation(request, uploaded) ==
    IF ~Truthy(request.title) \/ ~Truthy(request.type)
    THEN "Title and type are required"
    ELSE IF request.type \notin validTypes
    THEN "Invalid type"
    ELSE IF request.type = <<"documents">> /\ ~uploaded /\ ~Truthy(request.link)
    THEN "For documents: either upload a file OR provide a link"
    ELSE IF request.type = <<"other">> /\ ~Truthy(request.link)
            /\ ~Truthy(request.description)
    THEN "For other type: either link OR description is required"
    ELSE IF request.type \notin {<<"documents">>, <<"other">>}
            /\ (~Truthy(request.link) \/ ~Truthy(request.description))
    THEN "For social media types: title, link, and description are all required"
    ELSE ""

\* contentData after the schema's trim setters; a link that is empty after
\* trimming is not set, file fields are set only with an uploaded file
ContentDocument(id, userId, request, uploaded, path) ==
    [id |-> id,
     userId |-> userId,
     title |-> Trim(TrimOrEmpty(request.title)),
     type |-> request.type,
     link |-> IF Truthy(TrimOrEmpty(request.link)) THEN Trim(Trim(request.link))
              ELSE Undefined,
     description |-> Trim(TrimOrEmpty(request.description)),
     fileName |-> IF uploaded THEN Trim(request.file.originalname) ELSE Undefined,
     filePath |-> IF uploaded THEN Trim(path) ELSE Undefined,
     fileSize |-> IF uploaded THEN request.file.size ELSE -1,
     tags |-> {}]

titleMaxLength == 200
descriptionMaxLength == 1000
fileSizeMax == 10485760

\* variant: title is not required
SchemaValidNoTitle(doc) ==
    /\ Len(doc.title) <= titleMaxLength
    /\ doc.type \in validTypes
    /\ (Truthy(doc.link) => LinkPattern(doc.link))
    /\ Len(doc.description) <= descriptionMaxLength

\* ContentSchema's validators (a failure is a mongoose ValidationError)
SchemaValid(doc) ==
    /\ doc.title # <<>>
    /\ Len(doc.title) <= titleMaxLength
    /\ doc.type \in validTypes
    /\ (Truthy(doc.link) => LinkPattern(doc.link))
    /\ Len(doc.description) <= descriptionMaxLength
    /\ doc.type \in validTypes
    /\ doc.fileSize <= fileSizeMax

\* variant: a social record needs only one of link and description
PreSaveOkSocialEither(doc) ==
    /\ (doc.type \in socialTypes => Truthy(doc.link) \/ Truthy(doc.description))
    /\ (doc.type = <<"documents">> => Truthy(doc.fileName) \/ Truthy(doc.link))
    /\ (doc.type = <<"other">> => Truthy(doc.link) \/ Truthy(doc.description))

\* variant: the hook is not registered
PreSaveOkSkipped(doc) == TRUE

\* variant: no requirement on a documents record
PreSaveOkNoDocuments(doc) ==
    /\ (doc.type \in socialTypes => Truthy(doc.link) /\ Truthy(doc.description))
    /\ (doc.type = <<"other">> => Truthy(doc.link) \/ Truthy(doc.description))

\* ContentSchema.pre('save'): the per-type requirements (a failure is a
\* plain Error)
PreSaveOk(doc) ==
    /\ (doc.type \in socialTypes => Truthy(doc.link) /\ Truthy(doc.description))
    /\ (doc.type = <<"documents">> => Truthy(doc.fileName) \/ Truthy(doc.link))
    /\ (doc.type = <<"other">> => Truthy(doc.link) \/ Truthy(doc.description))

\* variant: the document is inserted before it is validated
ContentModelCreateUnchecked(doc) ==
    [error |-> IF ~SchemaValid(doc) THEN "ValidationError"
               ELSE IF ~PreSaveOk(doc) THEN "Error" ELSE "",
     contents |-> contents \cup {doc}]

\* ContentModel.create(contentData): validation, the pre-save hook, then the
\* insert; the error that is thrown ("" for none) and the store afterwards
ContentModelCreate(doc) ==
    IF ~SchemaValid(doc) THEN [error |-> "ValidationError", contents |-> contents]
    ELSE IF ~PreSaveOk(doc) THEN [error |-> "Error", contents |-> contents]
    ELSE [error |-> "", contents |-> contents \cup {doc}]

\* the handler: validation, ContentModel.create, the catch block
ContentHandler(r) ==
    LET uploaded == req[r].file # NoFile
        failure == HandlerValidation(req[r], uploaded)
        doc == ContentDocument(nextId, local[r].userId, req[r], uploaded, local[r].path)
        created == ContentModelCreate(doc)
    IN
    /\ pc[r] = "content_handler"
    /\ pc' = [pc EXCEPT ![r] = "done"]
    /\ IF failure # ""
       THEN /\ resp' = [resp EXCEPT ![r] = Respond(400, failure)]
            /\ UNCHANGED <<contents, nextId>>
       ELSE IF created.error = "ValidationError"
       THEN /\ resp' = [resp EXCEPT ![r] = Respond(400, "ValidationError")]
            /\ contents' = created.contents
            /\ UNCHANGED nextId
       ELSE IF created.error # ""
       THEN /\ resp' = [resp EXCEPT ![r] = Respond(500, "Internal server error")]
            /\ contents' = created.contents
            /\ UNCHANGED nextId
       ELSE /\ contents' = created.contents
            /\ nextId' = nextId + 1
            /\ resp' = [resp EXCEPT ![r] =
                  [Respond(201, "Content created successfully") EXCEPT !.data = doc.id]]
    /\ UNCHANGED <<users, links, files, clock, req, local, before>>

(***************************************************************************)
(* POST /api/v1/migrate/fix-descriptions                                   *)
(***************************************************************************)
MigrateRequest(token) == [NoReq EXCEPT !.op = "migrate", !.token = token]

MigrateReceive(r, tokens) ==
    /\ CanReceive(r)
    /\ \E t \in tokens : Receive(r, MigrateRequest(t), "migrate_updateMany")
    /\ UNCHANGED <<users, contents, links, files, nextId, clock>>

\* variant: the filter matches every record of the caller
NeedsDescriptionAlways(c, userId) == c.userId = userId

\* the filter of updateMany: the caller's records without a description
NeedsDescription(c, userId) == c.userId = userId /\ c.description = Undefined

\* ContentModel.updateMany(filter, { $set: { description: '' } })
FixDescriptions(store, userId) ==
    { IF NeedsDescription(c, userId) THEN [c EXCEPT !.description = <<>>] ELSE c :
        c \in store }

MigrateUpdateMany(r) ==
    /\ pc[r] = "migrate_updateMany"
    /\ contents' = FixDescriptions(contents, local[r].userId)
    /\ pc' = [pc EXCEPT ![r] = "done"]
    /\ resp' = [resp EXCEPT ![r] =
          [Respond(200, "Fixed content items") EXCEPT !.data =
              Cardinality({ c \in contents : NeedsDescription(c, local[r].userId) })]]
    /\ UNCHANGED <<users, links, files, nextId, clock, req, local, before>>

(***************************************************************************)
(* DELETE /api/v1/content                                                  *)
(***************************************************************************)
\* contentId 0 stands for a body without contentId
DeleteRequest(token, contentId) ==
    [NoReq EXCEPT !.op = "delete", !.token = token, !.contentId = contentId]

DeleteReceive(r, tokens, ids) ==
    /\ CanReceive(r)
    /\ \E t \in tokens, id \in ids : Receive(r, DeleteRequest(t, id), "delete_findOne")
    /\ UNCHANGED <<users, contents, links, files, nextId, clock>>

\* variant: the lookup does not filter on the owner
ContentFindOneOwnedAnyOwner(id, userId) ==
    IF \E c \in contents : c.id = id
    THEN CHOOSE c \in contents : c.id = id ELSE NoContent

\* ContentModel.findOne({ _id, userId })
ContentFindOneOwned(id, userId) ==
    IF \E c \in contents : c.id = id /\ c.userId = userId
    THEN CHOOSE c \in contents : c.id = id /\ c.userId = userId ELSE NoContent

\* ContentModel.deleteOne({ _id, userId })
ContentDeleteOne(id, userId) == { c \in contents : ~(c.id = id /\ c.userId = userId) }

\* variant: the file stays
UnlinkKeeps(path) == files

\* fs.unlinkSync(path) when it succeeds
Unlink(path) == files \ {path}

\* variant: what unlinkSync throws reaches the handler's catch block
FileErrorRethrown == FALSE

\* the try/catch around the file cleanup swallows what unlinkSync throws
FileErrorSwallowed == TRUE

\* the contentId check, await ContentModel.findOne, then the file cleanup:
\* when the recorded path exists, unlinkSync removes it or throws
DeleteFindOne(r) ==
    LET content == ContentFindOneOwned(req[r].contentId, local[r].userId) IN
    /\ pc[r] = "delete_findOne"
    /\ IF req[r].contentId = 0
       THEN /\ pc' = [pc EXCEPT ![r] = "done"]
            /\ resp' = [resp EXCEPT ![r] = Respond(400, "Content ID is required")]
            /\ UNCHANGED <<files, local>>
       ELSE IF content = NoContent
       THEN /\ pc' = [pc EXCEPT ![r] = "done"]
            /\ resp' = [resp EXCEPT ![r] =
                  Respond(404, "Content not found or unauthorized")]
            /\ UNCHANGED <<files, local>>
       ELSE /\ IF Truthy(content.filePath) /\ content.filePath \in files
               THEN \/ /\ files' = Unlink(content.filePath)
                       /\ local' = [local EXCEPT ![r].doc = content]
                       /\ pc' = [pc EXCEPT ![r] = "delete_deleteOne"]
                       /\ UNCHANGED resp
                    \/ /\ files' = files
                       /\ local' = [local EXCEPT ![r].doc = content,
                                                  ![r].unlinkFailed = TRUE]
                       /\ IF FileErrorSwallowed
                          THEN /\ pc' = [pc EXCEPT ![r] = "delete_deleteOne"]
                               /\ UNCHANGED resp
                          ELSE /\ pc' = [pc EXCEPT ![r] = "done"]
                               /\ resp' = [resp EXCEPT ![r] =
                                     Respond(500, "Internal Server Error")]
               ELSE /\ files' = files
                    /\ local' = [local EXCEPT ![r].doc = content]
                    /\ pc' = [pc EXCEPT ![r] = "delete_deleteOne"]
                    /\ UNCHANGED resp
    /\ UNCHANGED <<users, contents, links, nextId, clock, req, before>>

\* await ContentModel.deleteOne({ _id, userId })
DeleteDeleteOne(r) ==
    /\ pc[r] = "delete_deleteOne"
    /\ contents' = ContentDeleteOne(req[r].contentId, local[r].userId)
    /\ pc' = [pc EXCEPT ![r] = "done"]
    /\ resp' = [resp EXCEPT ![r] = Respond(200, "Content deleted successfully")]
    /\ UNCHANGED <<users, links, files, nextId, clock, req, local, before>>

(***************************************************************************)
(* GET /api/v1/content/:id/download                                        *)
(***************************************************************************)
\* contentId is req.params.id
DownloadRequest(token, contentId) ==
    [NoReq EXCEPT !.op = "download", !.token = token, !.contentId = contentId]

DownloadReceive(r, tokens, ids) ==
    /\ CanReceive(r)
    /\ \E t \in tokens, id \in ids :
          Receive(r, DownloadRequest(t, id), "download_findOne")
    /\ UNCHANGED <<users, contents, links, files, nextId, clock>>

\* variant: the lookup does not filter on the type
ContentFindOneDocumentAnyType(id, userId) == ContentFindOneOwned(id, userId)

\* ContentModel.findOne({ _id, userId, type: 'documents' })
ContentFindOneDocument(id, userId) ==
    IF \E c \in contents :
          c.id = id /\ c.userId = userId /\ c.type = <<"documents">>
    THEN CHOOSE c \in contents :
          c.id = id /\ c.userId = userId /\ c.type = <<"documents">>
    ELSE NoContent

\* await ContentModel.findOne, the 404 answer, res.sendFile; sendFile hands
\* a path that does not exist to express as an error with status 404
DownloadFindOne(r) ==
    LET content == ContentFindOneDocument(req[r].contentId, local[r].userId) IN
    /\ pc[r] = "download_findOne"
    /\ pc' = [pc EXCEPT ![r] = "done"]
    /\ resp' = [resp EXCEPT ![r] =
          IF content = NoContent \/ ~Truthy(content.filePath)
          THEN Respond(404, "Document file not found")
          ELSE IF content.filePath \notin files
          THEN Respond(404, "ENOENT")
          ELSE [Respond(200, "") EXCEPT !.sentFile = content.filePath]]
    /\ local' = [local EXCEPT ![r].doc = content]
    /\ UNCHANGED <<users, contents, links, files, nextId, clock, req, before>>

(***************************************************************************)
(* POST /api/v1/signup (no middleware)                                     *)
(***************************************************************************)
SignupRequest(username, password) ==
    [NoReq EXCEPT !.op = "signup", !.username = username, !.password = password]

usernameMin == 4
usernameMax == 10
passwordMin == 4
passwordMax == 20

\* signupSchema.parse: both fields are strings within their lengths (the
\* raw strings, zod does not trim)
signupSchema(request) ==
    /\ request.username # Undefined
    /\ Len(request.username) >= usernameMin /\ Len(request.username) <= usernameMax
    /\ request.password # Undefined
    /\ Len(request.password) >= passwordMin /\ Len(request.password) <= passwordMax

\* variant: the lookup never matches
UserExistsNoMatch(username) == FALSE

\* UserModel.findOne({ username }) found a user; the schema's trim setter
\* is applied to the filter as it is to a document
UserExists(username) == \E u \in users : u.username = Trim(username)

\* UserSchema's validators on the trimmed username: required, minlength 4,
\* maxlength 10
UserSchemaValid(doc) ==
    /\ doc.username # <<>>
    /\ Len(doc.username) >= 4 /\ Len(doc.username) <= 10
    /\ doc.password # <<>>

\* variant: no unique index on username
UserInsertAllowedNoIndex(doc) == TRUE

\* UserSchema: username is `unique: true`
UserInsertAllowed(doc) == \A u \in users : u.username # doc.username

SignupReceive(r, usernames, passwords) ==
    /\ CanReceive(r)
    /\ \E username \in usernames, password \in passwords :
          LET request == SignupRequest(username, password) IN
          /\ req' = [req EXCEPT ![r] = request]
          /\ IF signupSchema(request)
             THEN /\ pc' = [pc EXCEPT ![r] = "signup_findOne"]
                  /\ UNCHANGED resp
             ELSE /\ pc' = [pc EXCEPT ![r] = "done"]
                  /\ resp' = [resp EXCEPT ![r] = Respond(411, "Validation Error")]
    /\ before' = [before EXCEPT ![r] = { q \in Reqs : Done(q) }]
    /\ local' = [local EXCEPT ![r] = NoLocal]
    /\ UNCHANGED <<users, contents, links, files, nextId, clock>>

\* await UserModel.findOne({ username }); then bcrypt.hash(password, 10),
\* whose salt is drawn per call (the slot stands for the salt)
SignupFindOne(r) ==
    /\ pc[r] = "signup_findOne"
    /\ IF UserExists(req[r].username)
       THEN /\ pc' = [pc EXCEPT ![r] = "done"]
            /\ resp' = [resp EXCEPT ![r] =
                  Respond(403, "User already exists with this username")]
            /\ UNCHANGED local
       ELSE /\ pc' = [pc EXCEPT ![r] = "signup_create"]
            /\ local' = [local EXCEPT ![r].hashedPassword =
                  <<"bcrypt", r>> \o req[r].password]
            /\ UNCHANGED resp
    /\ UNCHANGED <<users, contents, links, files, nextId, clock, req, before>>

\* await UserModel.create({ username, password: hashedPassword }); a
\* validation or duplicate key error is not a ZodError: 500
SignupCreate(r) ==
    LET doc == [id |-> nextId, username |-> Trim(req[r].username),
                password |-> local[r].hashedPassword] IN
    /\ pc[r] = "signup_create"
    /\ pc' = [pc EXCEPT ![r] = "done"]
    /\ IF UserSchemaValid(doc) /\ UserInsertAllowed(doc)
       THEN /\ users' = users \cup {doc}
            /\ nextId' = nextId + 1
            /\ resp' = [resp EXCEPT ![r] = Respond(200, "Sign Up Successfull")]
       ELSE /\ UNCHANGED <<users, nextId>>
            /\ resp' = [resp EXCEPT ![r] = Respond(500, "Internal Server Error")]
    /\ UNCHANGED <<contents, links, files, clock, req, local, before>>

(***************************************************************************)
(* Inputs of the model.                                                    *)
(***************************************************************************)
ValidTokens == { TokenOf(u) : u \in UserIds }

AllTokens == ValidTokens \cup {NoToken, ForgedToken("u1")}

Titles == { Undefined, <<" ", " ">>, <<" ", "t">>, [i \in 1..(titleMaxLength + 1) |-> "t"] }

Types == validTypes \cup { <<"blog">>, Undefined }

Links == { Undefined, <<>>, <<" ">>, <<"a", "b", "c">>,
           <<" ", "h", "t", "t", "p", ":", "/", "/", "a">> }

Descriptions == { Undefined, <<" ">>, <<"d", " ">>,
                  [i \in 1..(descriptionMaxLength + 1) |-> "d"] }

PdfFile == [originalname |-> <<"a", ".", "p", "d", "f">>,
            mimetype |-> "application/pdf", size |-> 1000]

UploadFiles == { NoFile, PdfFile,
                 [PdfFile EXCEPT !.originalname = <<" ">>],
                 [PdfFile EXCEPT !.mimetype = "image/png"],
                 [PdfFile EXCEPT !.size = fileSizeLimit + 1] }

ContentRequests ==
    { ContentRequest(t, title, type, link, description, file) :
        t \in AllTokens, title \in Titles, type \in Types, link \in Links,
        description \in Descriptions, file \in UploadFiles }

\* records that earlier submissions of u1 and u2 have created
SampleContents ==
    { ContentDocument(1, "u1",
          ContentRequest(TokenOf("u1"), <<"t">>, <<"youtube">>,
              <<"h", "t", "t", "p", ":", "/", "/", "a">>, <<"d">>, NoFile),
          FALSE, Undefined),
      ContentDocument(2, "u1",
          ContentRequest(TokenOf("u1"), <<"n">>, <<"other">>, Undefined, <<"d">>, NoFile),
          FALSE, Undefined),
      ContentDocument(3, "u2",
          ContentRequest(TokenOf("u2"), <<"t">>, <<"documents">>,
              <<"h", "t", "t", "p", "s", ":", "/", "/", "b">>, Undefined, NoFile),
          FALSE, Undefined) }

(***************************************************************************)
(* Specifications.                                                         *)
(***************************************************************************)
\* both users have signed up; no request has arrived yet
InitRegistered ==
    /\ users = RegisteredUsers
    /\ links = {}
    /\ files = {}
    /\ clock = 0
    /\ req = [r \in Reqs |-> NoReq]
    /\ pc = [r \in Reqs |-> "idle"]
    /\ local = [r \in Reqs |-> NoLocal]
    /\ resp = [r \in Reqs |-> NoResp]
    /\ before = [r \in Reqs |-> {}]

\* the content stores the share-link lifecycle is run over: empty, the
\* records of one user, the records of both
SampleStores ==
    { {}, { c \in SampleContents : c.userId = "u1" }, SampleContents }

\* the share-link lifecycle over a content store that earlier submissions filled
InitShare ==
    /\ InitRegistered
    /\ contents \in SampleStores
    /\ nextId = 4

NextShare ==
    \E r \in 1..NReq :
        \/ Admit(MaxInFlight) /\ ShareReceive(r, ValidTokens, {"true", "false"})
        \/ ShareFindOne(r)
        \/ ShareCreate(r)
        \/ ShareDeleteOne(r)
        \/ Admit(MaxInFlight) /\ BrainReceive(r, random(HashLen))
        \/ BrainFindLink(r)
        \/ BrainFindContent(r)
        \/ BrainFindUser(r)

SpecShare == InitShare /\ [][NextShare]_vars

\* the same requests handled strictly one after the other
NextShareSeq ==
    \E r \in 1..NSeq :
        \/ Admit(1) /\ ShareReceive(r, ValidTokens, {"true", "false"})
        \/ ShareFindOne(r)
        \/ ShareCreate(r)
        \/ ShareDeleteOne(r)
        \/ Admit(1) /\ BrainReceive(r, random(HashLen))
        \/ BrainFindLink(r)
        \/ BrainFindContent(r)
        \/ BrainFindUser(r)

SpecShareSeq == InitShare /\ [][NextShareSeq]_vars

\* one content submission, any input
InitContent ==
    /\ InitRegistered
    /\ contents = {}
    /\ nextId = 1

NextContent ==
    \/ ContentReceive(1, ContentRequests)
    \/ ContentUpload(1)
    \/ ContentHandler(1)

SpecContent == InitContent /\ [][NextContent]_vars

\* submissions of u1, deletions and migrations of u1 and u2, with and
\* without a valid token, against an empty content store
HttpLink == <<"h", "t", "t", "p", ":", "/", "/", "a">>

StoreSubmissions ==
    { ContentRequest(t, <<"t">>, b[1], b[2], b[3], b[4]) :
        t \in {TokenOf("u1"), ForgedToken("u1")},
        b \in { <<<<"youtube">>, HttpLink, <<"d">>, NoFile>>,
                <<<<"youtube">>, Undefined, <<"d">>, NoFile>>,
                <<<<"documents">>, Undefined, Undefined, PdfFile>>,
                <<<<"documents">>, <<" ">>, Undefined, NoFile>>,
                <<<<"documents">>, HttpLink, Undefined,
                  [PdfFile EXCEPT !.originalname = <<" ">>]>>,
                <<<<"other">>, <<" ">>, Undefined, PdfFile>> } }

DeleteIds == 0..2

InitStore ==
    /\ InitRegistered
    /\ contents = {}
    /\ nextId = 1

NextStore ==
    \E r \in 1..NReq :
        \/ Admit(MaxInFlight) /\ ContentReceive(r, StoreSubmissions)
        \/ ContentUpload(r)
        \/ ContentHandler(r)
        \/ Admit(MaxInFlight) /\ DeleteReceive(r, ValidTokens \cup {NoToken}, DeleteIds)
        \/ DeleteFindOne(r)
        \/ DeleteDeleteOne(r)
        \/ Admit(MaxInFlight) /\ MigrateReceive(r, ValidTokens)
        \/ MigrateUpdateMany(r)

SpecStore == InitStore /\ [][NextStore]_vars

\* submissions with and without a file, deletions and downloads against an
\* empty content store
FileSubmissions ==
    { ContentRequest(b[1], <<"t">>, b[2], b[3], Undefined, b[4]) :
        b \in { <<TokenOf("u1"), <<"documents">>, Undefined, PdfFile>>,
                <<TokenOf("u1"), <<"documents">>, HttpLink, NoFile>>,
                <<TokenOf("u1"), <<"other">>, HttpLink, PdfFile>>,
                <<TokenOf("u2"), <<"documents">>, Undefined, PdfFile>> } }

DownloadIds == 1..2

NextFiles ==
    \E r \in 1..NReq :
        \/ Admit(MaxInFlight) /\ ContentReceive(r, FileSubmissions)
        \/ ContentUpload(r)
        \/ ContentHandler(r)
        \/ Admit(MaxInFlight) /\ DeleteReceive(r, {TokenOf("u1")}, {1})
        \/ DeleteFindOne(r)
        \/ DeleteDeleteOne(r)
        \/ Admit(MaxInFlight) /\ DownloadReceive(r, ValidTokens, DownloadIds)
        \/ DownloadFindOne(r)

SpecFiles == InitStore /\ [][NextFiles]_vars

\* share requests with every kind of body: true, false, a string, no
\* share field
ShareBodies == {"true", "false", "string", "undefined"}

NextShareBody ==
    \E r \in 1..NReq :
        \/ Admit(MaxInFlight) /\ ShareReceive(r, ValidTokens, ShareBodies)
        \/ ShareFindOne(r)
        \/ ShareCreate(r)
        \/ ShareDeleteOne(r)

SpecShareBody == InitStore /\ [][NextShareBody]_vars

\* deletions against the store that a documents submission of u1 with the
\* file a.pdf has left: its record and its file
StoredDocument ==
    ContentDocument(1, "u1",
        ContentRequest(TokenOf("u1"), <<"t">>, <<"documents">>, Undefined, Undefined,
                       PdfFile),
        TRUE, UploadPath(0, PdfFile.originalname))

InitDelete ==
    /\ users = RegisteredUsers
    /\ links = {}
    /\ contents = {StoredDocument}
    /\ files = {UploadPath(0, PdfFile.originalname)}
    /\ nextId = 2
    /\ clock = 0
    /\ req = [r \in Reqs |-> NoReq]
    /\ pc = [r \in Reqs |-> "idle"]
    /\ local = [r \in Reqs |-> NoLocal]
    /\ resp = [r \in Reqs |-> NoResp]
    /\ before = [r \in Reqs |-> {}]

NextDelete ==
    \E r \in 1..NReq :
        \/ Admit(MaxInFlight) /\ DeleteReceive(r, ValidTokens, DeleteIds)
        \/ DeleteFindOne(r)
        \/ DeleteDeleteOne(r)

SpecDelete == InitDelete /\ [][NextDelete]_vars

\* every route that writes, called by both users over a content store that
\* earlier submissions filled
OwnerSubmissions ==
    { ContentRequest(t, <<"t">>, <<"youtube">>, HttpLink, <<"d">>, NoFile) :
        t \in ValidTokens }

OwnerDeleteIds == {1, 3}

InitOwner ==
    /\ InitRegistered
    /\ contents = SampleContents
    /\ nextId = 4

NextOwner ==
    \E r \in 1..NReq :
        \/ Admit(MaxInFlight) /\ ContentReceive(r, OwnerSubmissions)
        \/ ContentUpload(r)
        \/ ContentHandler(r)
        \/ Admit(MaxInFlight) /\ DeleteReceive(r, ValidTokens, OwnerDeleteIds)
        \/ DeleteFindOne(r)
        \/ DeleteDeleteOne(r)
        \/ Admit(MaxInFlight) /\ MigrateReceive(r, ValidTokens)
        \/ MigrateUpdateMany(r)
        \/ Admit(MaxInFlight) /\ ShareReceive(r, ValidTokens, {"true", "false"})
        \/ ShareFindOne(r)
        \/ ShareCreate(r)
        \/ ShareDeleteOne(r)

SpecOwner == InitOwner /\ [][NextOwner]_vars

\* sign-ups against an empty credential store
Usernames == { Undefined, <<"a", "b", "c", "d">>, <<"a", "b", "c", "d", " ">>,
               <<"a", "b", "c", " ">>, <<"w", "x", "y", "z">> }

Passwords == { <<"p">>, <<"p", "w", "d", "1">>, <<"p", "w", "d", "2">> }

InitSignup ==
    /\ users = {}
    /\ contents = {}
    /\ links = {}
    /\ files = {}
    /\ nextId = 1
    /\ clock = 0
    /\ req = [r \in Reqs |-> NoReq]
    /\ pc = [r \in Reqs |-> "idle"]
    /\ local = [r \in Reqs |-> NoLocal]
    /\ resp = [r \in Reqs |-> NoResp]
    /\ before = [r \in Reqs |-> {}]

NextSignup ==
    \E r \in 1..NReq :
        \/ Admit(MaxInFlight) /\ SignupReceive(r, Usernames, Passwords)
        \/ SignupFindOne(r)
        \/ SignupCreate(r)

SpecSignup == InitSignup /\ [][NextSignup]_vars

(***************************************************************************)
(* Vocabulary of the properties.                                           *)
(***************************************************************************)
\* r is a share request of user u whose `share` is truthy / falsy
ShareOn(r, u) == req[r].op = "share" /\ local[r].userId = u /\ ShareTruthy(req[r].share)
ShareOff(r, u) == req[r].op = "share" /\ local[r].userId = u /\ ~ShareTruthy(req[r].share)

\* r was answered with a share link
Shared(r) == Done(r) /\ resp[r].status = 200 /\ resp[r].shareLink # <<>>

\* r drew a token and created the record it was answered with
SharedNew(r) == Shared(r) /\ local[r].hash = resp[r].shareLink

\* q was answered before r arrived
Before(q, r) == q \in before[r]

LinksOf(u) == { l \in links : l.userId = u }

\* r2 is a second share(true) of u after r1, and u sent no other share
\* request since r1 arrived
ShareTwice(r1, r2, u) ==
    /\ r1 # r2 /\ ShareOn(r1, u) /\ ShareOn(r2, u)
    /\ Shared(r1) /\ Done(r2) /\ Before(r1, r2)
    /\ \A r3 \in Reqs \ {r1, r2} :
          req[r3].op = "share" /\ local[r3].userId = u => Before(r3, r1)

(***************************************************************************)
(* Share-link properties.                                                  *)
(***************************************************************************)
\* C1: in every reachable state, whatever the interleaving of share
\* requests, each user has at most one Share-Link record.
OneLinkPerUser == \A u \in UserIds : Cardinality(LinksOf(u)) <= 1

\* two overlapping share(true) requests of one user both saw no link; one
\* created the record, the other was refused by the index
RacingShares ==
    \E r1, r2 \in Reqs, u \in UserIds :
        /\ r1 # r2 /\ ShareOn(r1, u) /\ ShareOn(r2, u)
        /\ ~Before(r1, r2) /\ ~Before(r2, r1)
        /\ SharedNew(r1)
        /\ Done(r2) /\ resp[r2].status = 500 /\ local[r2].hash # resp[r1].shareLink

\* C2: share(true) twice in sequence for one user: the second call returns
\* the hash of the first, draws no token, and the user has exactly one record.
ShareIdempotent ==
    \A r1, r2 \in Reqs, u \in UserIds :
        ShareTwice(r1, r2, u) =>
            /\ resp[r2].status = 200
            /\ resp[r2].shareLink = resp[r1].shareLink
            /\ local[r2].hash = <<>>
            /\ LinksOf(u) = {[hash |-> resp[r1].shareLink, userId |-> u]}

SharedTwice ==
    \E r1, r2 \in Reqs, u \in UserIds :
        /\ ShareTwice(r1, r2, u)
        /\ SharedNew(r1)
        /\ resp[r2].message = "Share link already exists"

\* C3: share(true) answered H1, then share(false), then share(true)
\* answered H2, one after the other for one user: H2 differs from H1.
ReshareDiffers ==
    \A r1, r2, r3 \in Reqs, u \in UserIds :
        ( /\ ShareOn(r1, u) /\ ShareOff(r2, u) /\ ShareOn(r3, u)
          /\ Shared(r1) /\ Done(r2) /\ Shared(r3)
          /\ Before(r1, r2) /\ Before(r2, r3) )
        => resp[r3].shareLink # resp[r1].shareLink

\* C4: once a share(false) of a user is answered, a resolution of the hash
\* the user had before it that starts afterwards fails with 411 and carries
\* no username and no content.
RevokedHashFails ==
    \A r1, r2, r4 \in Reqs, u \in UserIds :
        ( /\ ShareOn(r1, u) /\ Shared(r1)
          /\ ShareOff(r2, u) /\ Done(r2) /\ Before(r1, r2)
          /\ req[r4].op = "brain" /\ req[r4].hash = resp[r1].shareLink
          /\ Done(r4) /\ Before(r2, r4) )
        => resp[r4].status = 411 /\ resp[r4].username = <<>> /\ resp[r4].content = {}

\* C5: the step that answers a share(false) request answers with success,
\* leaves the caller without a Share-Link record, removes nothing else and
\* changes no Content record.
ShareOffRemoves ==
    [][ \A r \in Reqs, u \in UserIds :
          (ShareOff(r, u) /\ ~Done(r) /\ pc'[r] = "done") =>
              /\ resp'[r].status = 200
              /\ \A l \in links' : l.userId # u
              /\ links' = links \ LinksOf(u)
              /\ contents' = contents ]_vars

\* a share(false) that found the caller's link in place and removed it
Revoked ==
    \E r1, r2 \in Reqs, u \in UserIds :
        /\ ShareOn(r1, u) /\ SharedNew(r1)
        /\ ShareOff(r2, u) /\ Done(r2) /\ Before(r1, r2)
        /\ \A r3 \in Reqs \ {r1, r2} : req[r3].op = "none"
        /\ resp[r2].status = 200
        /\ LinksOf(u) = {}
        /\ contents # {}

\* C6: after share(true) of a user without a link is answered H, a
\* resolution of H (while the user has not revoked) returns the user's
\* username and exactly the Content records the user owns.
ResolveShowsOwnContent ==
    \A r1, r2 \in Reqs, u \in UserIds :
        ( /\ ShareOn(r1, u) /\ SharedNew(r1)
          /\ req[r2].op = "brain" /\ req[r2].hash = resp[r1].shareLink
          /\ Done(r2) /\ Before(r1, r2)
          /\ \A r3 \in Reqs : ShareOff(r3, u) => Before(r3, r1) \/ Before(r2, r3) )
        => /\ resp[r2].status = 200
           /\ resp[r2].username = UserFindById(u).username
           /\ resp[r2].content = { c \in contents : c.userId = u }

\* a resolution that returned some records while another user owns others
ResolvedWithContent ==
    \E r1, r2 \in Reqs, u \in UserIds :
        /\ ShareOn(r1, u) /\ SharedNew(r1)
        /\ req[r2].op = "brain" /\ req[r2].hash = resp[r1].shareLink
        /\ Done(r2) /\ Before(r1, r2)
        /\ resp[r2].status = 200
        /\ resp[r2].content # {}
        /\ resp[r2].content # contents

\* C7: a resolution whose hash matches no Share-Link record when it is
\* looked up ends with 411 and carries no username and no content.
UnknownHashFails ==
    [][ \A r \in Reqs :
          ( /\ req[r].op = "brain" /\ pc[r] = "brain_findLink"
            /\ pc'[r] # "brain_findLink"
            /\ \A l \in links : l.hash # req[r].hash )
          => /\ pc'[r] = "done"
             /\ resp'[r].status = 411
             /\ resp'[r].username = <<>>
             /\ resp'[r].content = {} ]_vars

\* a resolution failed although another hash is linked
UnknownHashFailed ==
    \E r \in Reqs :
        /\ req[r].op = "brain" /\ Done(r) /\ resp[r].status = 411
        /\ \E l \in links : l.hash # req[r].hash
        /\ \A l \in links : l.hash # req[r].hash

(***************************************************************************)
(* Content-submission properties.                                          *)
(***************************************************************************)
\* r is an answered content submission of an authenticated user
Submission(r) ==
    req[r].op = "content" /\ Done(r) /\ userMiddleware(req[r].token).status = 0

\* the field was sent and is not empty once trimmed
NonEmptyTrimmed(v) == v # Undefined /\ Trim(v) # <<>>

\* the request's record was persisted for the caller
Created(r) ==
    /\ resp[r].status = 201
    /\ \E c \in contents : c.id = resp[r].data /\ c.userId = local[r].userId

\* no file was sent, or the upload step stored it
UploadAccepted(file) ==
    file = NoFile \/ (file.mimetype \in allowedTypes /\ file.size <= fileSizeLimit)

\* what every type requires: an accepted upload, a title that is not empty
\* after trimming and within 200 characters, a description within 1000
\* characters, and a link that, when not empty, matches the link pattern
WellFormed(request) ==
    /\ UploadAccepted(request.file)
    /\ NonEmptyTrimmed(request.title)
    /\ Len(Trim(request.title)) <= 200
    /\ (request.description # Undefined => Len(Trim(request.description)) <= 1000)
    /\ (NonEmptyTrimmed(request.link) => LinkPattern(Trim(request.link)))

\* C8 as stated: a social submission creates a record iff link and
\* description are both non-empty after trimming.
SocialCreatedIffBoth ==
    \A r \in Reqs :
        Submission(r) /\ req[r].type \in socialTypes =>
            (Created(r) <=> NonEmptyTrimmed(req[r].link)
                            /\ NonEmptyTrimmed(req[r].description))

\* C8: a social submission creates a record iff link and description are
\* both non-empty after trimming and the submission is well formed (upload
\* accepted, title non-empty after trimming, lengths within the limits,
\* link matching the pattern); otherwise the store stays as it was.
SocialCreatedIffValid ==
    \A r \in Reqs :
        Submission(r) /\ req[r].type \in socialTypes =>
            /\ Created(r) <=> /\ NonEmptyTrimmed(req[r].link)
                              /\ NonEmptyTrimmed(req[r].description)
                              /\ WellFormed(req[r])
            /\ (~Created(r) => contents = {})

\* a social submission whose link needed trimming was persisted
SocialCreated ==
    \E r \in Reqs :
        /\ Submission(r) /\ req[r].type \in socialTypes /\ Created(r)
        /\ req[r].link # Trim(req[r].link)
        /\ \E c \in contents : c.link = Trim(req[r].link)

\* C9 as stated: a documents submission creates a record iff a file was
\* uploaded or a link is present.
DocumentsCreatedIffEither ==
    \A r \in Reqs :
        Submission(r) /\ req[r].type = <<"documents">> =>
            (Created(r) <=> req[r].file # NoFile \/ NonEmptyTrimmed(req[r].link))

\* C9: a documents submission creates a record iff it is well formed and
\* carries an uploaded file whose name is not blank or a link that is
\* non-empty after trimming; otherwise the store stays as it was.
DocumentsCreatedIffValid ==
    \A r \in Reqs :
        Submission(r) /\ req[r].type = <<"documents">> =>
            /\ Created(r) <=>
                  /\ WellFormed(req[r])
                  /\ \/ req[r].file # NoFile /\ Trim(req[r].file.originalname) # <<>>
                     \/ NonEmptyTrimmed(req[r].link)
            /\ (~Created(r) => contents = {})

\* a documents submission with a file and no link was persisted with its file
DocumentsCreated ==
    \E r \in Reqs :
        /\ Submission(r) /\ req[r].type = <<"documents">> /\ Created(r)
        /\ req[r].file # NoFile /\ ~Truthy(req[r].link)
        /\ \E c \in contents : c.filePath \in files

\* C10: a submission of type other that reaches the handler with neither a
\* link nor a description creates no record and is answered 400.
OtherNeitherAnswered400 ==
    \A r \in Reqs :
        ( /\ Submission(r) /\ req[r].type = <<"other">>
          /\ UploadAccepted(req[r].file)
          /\ ~NonEmptyTrimmed(req[r].link)
          /\ ~NonEmptyTrimmed(req[r].description) )
        => resp[r].status = 400 /\ ~Created(r)

\* what holds of type other: a record is created iff the submission is well
\* formed and link or description is non-empty after trimming
OtherCreatedIffValid ==
    \A r \in Reqs :
        Submission(r) /\ req[r].type = <<"other">> =>
            (Created(r) <=> /\ WellFormed(req[r])
                            /\ \/ NonEmptyTrimmed(req[r].link)
                               \/ NonEmptyTrimmed(req[r].description))

(***************************************************************************)
(* Sign-up properties.                                                     *)
(***************************************************************************)
UsersNamed(username) == { u \in users : u.username = Trim(username) }

\* r2 is a signup for the username of the successful signup r1, received
\* after r1 was answered
SignupAgain(r1, r2) ==
    /\ req[r1].op = "signup" /\ Done(r1) /\ resp[r1].status = 200
    /\ req[r2].op = "signup" /\ Done(r2) /\ Before(r1, r2)
    /\ req[r2].username = req[r1].username

\* C14 as stated: after a successful signup with username u, a later signup
\* with the same u is answered 403, and the one User record of u keeps the
\* password hash of the first signup.
SecondSignupRefused ==
    \A r1, r2 \in Reqs :
        SignupAgain(r1, r2)
        => /\ resp[r2].status = 403
           /\ Cardinality(UsersNamed(req[r1].username)) = 1
           /\ \A u \in UsersNamed(req[r1].username) :
                 u.password = local[r1].hashedPassword

\* C14: after a successful signup with username u, a later signup with the
\* same u is answered 403 when its password passes the schema and 411 when
\* it does not; either way u has one User record, with the password hash of
\* the first signup.
SecondSignupRefusedOrInvalid ==
    \A r1, r2 \in Reqs :
        SignupAgain(r1, r2)
        => /\ resp[r2].status = IF signupSchema(req[r2]) THEN 403 ELSE 411
           /\ Cardinality(UsersNamed(req[r1].username)) = 1
           /\ \A u \in UsersNamed(req[r1].username) :
                 u.password = local[r1].hashedPassword

\* a second signup with another password was refused for a name that the
\* schema trims
SignedUpTwice ==
    \E r1, r2 \in Reqs :
        /\ req[r1].op = "signup" /\ Done(r1) /\ resp[r1].status = 200
        /\ req[r2].op = "signup" /\ Done(r2) /\ Before(r1, r2)
        /\ req[r2].username = req[r1].username
        /\ req[r2].password # req[r1].password
        /\ Trim(req[r1].username) # req[r1].username
        /\ resp[r2].status = 403

\* C15: in every reachable state, also when signups for one username
\* overlap, at most one User record has a given username.
OneUserPerUsername ==
    \A u1, u2 \in users : u1.username = u2.username => u1 = u2

\* two overlapping signups for one name both passed the existence check;
\* one created the user, the other was refused by the index
RacingSignups ==
    \E r1, r2 \in Reqs :
        /\ r1 # r2 /\ req[r1].op = "signup" /\ req[r2].op = "signup"
        /\ ~Before(r1, r2) /\ ~Before(r2, r1)
        /\ Trim(req[r1].username) = Trim(req[r2].username)
        /\ Done(r1) /\ resp[r1].status = 200
        /\ Done(r2) /\ resp[r2].status = 500
        /\ local[r2].hashedPassword # <<>>

(***************************************************************************)
(* Properties of the content store under submissions, deletions and        *)
(* migrations                                                              *)
(***************************************************************************)
\* r is a finished request of the DELETE route that passed the middleware
Deletion(r) ==
    req[r].op = "delete" /\ Done(r) /\ userMiddleware(req[r].token).status = 0

Persisted(id) == \E c \in contents : c.id = id

\* C11: every persisted record meets the requirement of its type: a social
\* record has a non-empty link and a non-empty description, a documents
\* record has an uploaded file or a non-empty link, an other record has a
\* non-empty link or a non-empty description.
RecordsMeetTypeRequirement ==
    \A c \in contents :
        /\ c.type \in socialTypes =>
              c.link # Undefined /\ c.link # <<>> /\ c.description # <<>>
        /\ c.type = <<"documents">> =>
              \/ c.fileName # Undefined /\ c.fileName # <<>>
              \/ c.link # Undefined /\ c.link # <<>>
        /\ c.type = <<"other">> =>
              \/ c.link # Undefined /\ c.link # <<>>
              \/ c.description # <<>>

\* a social record and a documents record with a file are both persisted
SocialAndDocumentPersisted ==
    /\ \E c \in contents : c.type \in socialTypes
    /\ \E c \in contents : c.type = <<"documents">> /\ Truthy(c.fileName)

\* C12: a deletion that names a record of another user is answered 404 in
\* the step that looks the record up, and that step leaves the record and
\* every stored file in place.
ForeignDeleteNotFound ==
    [][\A r \in Reqs :
          (/\ pc[r] = "delete_findOne"
           /\ pc'[r] # "delete_findOne"
           /\ \E c \in contents :
                 c.id = req[r].contentId /\ c.userId # local[r].userId)
          => /\ pc'[r] = "done"
             /\ resp'[r].status = 404
             /\ contents' = contents
             /\ files' = files]_vars

\* a deletion was answered 404 while the record it names, owned by another
\* user, and that record's file are still there
ForeignDeleteRefused ==
    \E r \in Reqs :
        /\ Deletion(r)
        /\ resp[r].status = 404
        /\ \E c \in contents :
              /\ c.id = req[r].contentId
              /\ c.userId # local[r].userId
              /\ Truthy(c.filePath)
              /\ c.filePath \in files

\* r is a deletion answered with success of a record that has a recorded
\* file path
FileDeletion(r) ==
    Deletion(r) /\ resp[r].status = 200 /\ Truthy(local[r].doc.filePath)

StoredAgain(q, r) ==
    /\ q # r
    /\ req[q].op = "content"
    /\ ~Before(q, r)
    /\ local[q].path = local[r].doc.filePath
    /\ ~(resp[q].status = 201 /\ resp[q].data = local[r].doc.id)

UnlinkFailureSwallowed ==
    \A r \in Reqs :
        (Deletion(r) /\ local[r].unlinkFailed) =>
            /\ resp[r].status = 200
            /\ ~Persisted(req[r].contentId)

\* removing the file failed, the deletion succeeded, the record is gone and
\* the file is still stored
DeletedDespiteUnlinkFailure ==
    \E r \in Reqs :
        /\ Deletion(r)
        /\ local[r].unlinkFailed
        /\ resp[r].status = 200
        /\ ~Persisted(req[r].contentId)
        /\ local[r].doc.filePath \in files

\* the token does not pass the middleware
BadToken(token) == token = NoToken \/ token[2] # "signed"

\* C13: a request to a protected route without a token is answered 401 and
\* one whose token does not verify 403, in the step in which it arrives;
\* neither the upload step nor the handler runs for it (it is finished and
\* has no handler-local value), and the step leaves the content records,
\* the share links and the stored files as they were.
UnauthenticatedRefused ==
    [][\A r \in Reqs :
          (pc[r] = "idle" /\ pc'[r] # "idle" /\ BadToken(req'[r].token))
          => /\ pc'[r] = "done"
             /\ resp'[r].status = IF req'[r].token = NoToken THEN 401 ELSE 403
             /\ local'[r] = NoLocal
             /\ contents' = contents
             /\ links' = links
             /\ files' = files]_vars

\* a submission with a file and a forged token and a deletion without a
\* token were refused while a record and its file were stored
RefusedWithoutValidToken ==
    /\ contents # {}
    /\ files # {}
    /\ \E r \in Reqs :
          /\ Done(r)
          /\ \/ /\ req[r].op = "content" /\ req[r].file # NoFile
                /\ req[r].token = ForgedToken("u1") /\ resp[r].status = 403
             \/ /\ req[r].op = "delete" /\ req[r].contentId = 1
                /\ req[r].token = NoToken /\ resp[r].status = 401
          /\ local[r] = NoLocal

\* C18 as stated: a submission that reached the handler and was rejected is
\* answered 400.
RejectedAnswered400 ==
    \A r \in Reqs :
        (Submission(r) /\ UploadAccepted(req[r].file) /\ ~Created(r))
        => resp[r].status = 400

\* C19: the step that answers a submission with anything but 201 leaves the
\* content store as it was.
RejectionKeepsStore ==
    [][\A r \in Reqs :
          (/\ req[r].op = "content"
           /\ pc[r] # "done"
           /\ pc'[r] = "done"
           /\ resp'[r].status # 201)
          => contents' = contents]_vars

\* submissions were rejected by the handler's checks and by the pre-save
\* hook while a record was stored
RejectedBesideRecord ==
    /\ contents # {}
    /\ \E r \in Reqs : Submission(r) /\ resp[r].status \in {400, 500}

\* C20: a submission whose title is missing or empty after trimming creates
\* no record; it is answered 400 when the upload step let it through to the
\* handler, and with the upload step's error otherwise.
BlankTitleRejected ==
    \A r \in Reqs :
        (Submission(r) /\ ~NonEmptyTrimmed(req[r].title))
        => /\ ~Created(r)
           /\ contents = {}
           /\ resp[r].status = IF UploadAccepted(req[r].file) THEN 400 ELSE 500

\* a submission with a whitespace-only title and otherwise complete fields
\* was answered 400
BlankTitleAnswered400 ==
    \E r \in Reqs :
        /\ Submission(r)
        /\ req[r].title = <<" ", " ">>
        /\ WellFormed([req[r] EXCEPT !.title = <<"t">>])
        /\ req[r].type = <<"other">>
        /\ NonEmptyTrimmed(req[r].description)
        /\ resp[r].status = 400

(***************************************************************************)
(* Properties of the type check                                            *)
(***************************************************************************)
\* r is a finished submission whose type was sent and is not one of the
\* seven values
UnknownType(r) ==
    Submission(r) /\ Truthy(req[r].type) /\ req[r].type \notin validTypes

\* C21 as stated: a submission with an unknown type is answered with the
\* invalid-type error (400) whatever its other fields are, and no record is
\* persisted.
UnknownTypeAlwaysInvalidType ==
    \A r \in Reqs :
        UnknownType(r) =>
            /\ resp[r].status = 400
            /\ resp[r].message = "Invalid type"
            /\ contents = {}

\* C21: a submission with an unknown type persists no record; it is
\* answered with the invalid-type error (400) when its title was sent and
\* the upload step accepted its file, with the title-and-type error (400)
\* when the title is missing or empty, and with the upload step's error
\* (500) when the file was rejected.
UnknownTypeRejected ==
    \A r \in Reqs :
        UnknownType(r) =>
            /\ contents = {}
            /\ ~UploadAccepted(req[r].file) => resp[r].status = 500
            /\ (UploadAccepted(req[r].file) /\ ~Truthy(req[r].title)) =>
                  /\ resp[r].status = 400
                  /\ resp[r].message = "Title and type are required"
            /\ (UploadAccepted(req[r].file) /\ Truthy(req[r].title)) =>
                  /\ resp[r].status = 400
                  /\ resp[r].message = "Invalid type"

\* a submission of type blog with a title, a link and a description was
\* answered with the invalid-type error
UnknownTypeAnswered ==
    \E r \in Reqs :
        /\ UnknownType(r)
        /\ WellFormed(req[r])
        /\ NonEmptyTrimmed(req[r].link)
        /\ NonEmptyTrimmed(req[r].description)
        /\ resp[r].status = 400
        /\ resp[r].message = "Invalid type"

(***************************************************************************)
(* Frame properties of the content store                                   *)
(***************************************************************************)
\* C22: no step changes a field of a persisted record: a record whose id
\* is still in the store after the step is in the store unchanged.
RecordsImmutable ==
    [][\A c \in contents :
          (\E d \in contents' : d.id = c.id) => c \in contents']_vars

\* a migration of the owner was answered while a record with a description
\* that an earlier submission created is persisted
MigratedOverRecord ==
    \E r \in Reqs, q \in Reqs :
        /\ req[r].op = "migrate" /\ Done(r) /\ resp[r].status = 200
        /\ Submission(q) /\ Created(q) /\ Before(q, r)
        /\ local[q].userId = local[r].userId
        /\ \E c \in contents : c.id = resp[q].data /\ c.description # <<>>

(***************************************************************************)
(* Properties of the download route                                        *)
(***************************************************************************)
\* the record with this id is owned by the user, is a documents record and
\* has a recorded file path
Downloadable(id, userId) ==
    \E c \in contents :
        /\ c.id = id
        /\ c.userId = userId
        /\ c.type = <<"documents">>
        /\ c.filePath # Undefined /\ c.filePath # <<>>

\* C23: the step that answers a download sends a file only when the record
\* named by the id is owned by the caller, has type documents and has a
\* recorded file path, and then it is the file at that path; in every other
\* case the answer is 404 and no file is sent.
DownloadOnlyOwnDocument ==
    [][\A r \in Reqs :
          (pc[r] = "download_findOne" /\ pc'[r] = "done")
          => IF Downloadable(req[r].contentId, local[r].userId)
             THEN \/ /\ resp'[r].status = 200
                     /\ \E c \in contents :
                           /\ c.id = req[r].contentId
                           /\ resp'[r].sentFile = c.filePath
                  \/ resp'[r].status = 404 /\ resp'[r].sentFile = Undefined
             ELSE resp'[r].status = 404 /\ resp'[r].sentFile = Undefined]_vars

\* a download was answered with the file of the caller's documents record
DownloadSent ==
    \E r \in Reqs :
        /\ req[r].op = "download" /\ Done(r)
        /\ resp[r].status = 200
        /\ resp[r].sentFile \in files
        /\ Downloadable(req[r].contentId, local[r].userId)

(***************************************************************************)
(* Properties of the share route's body                                    *)
(***************************************************************************)
\* C24 as stated: a step of a share request whose share field is absent or
\* not a boolean leaves the share-link store unchanged.
NonBooleanShareKeepsLinks ==
    [][\A r \in Reqs :
          (/\ req[r].op = "share"
           /\ req[r].share \notin {"true", "false"}
           /\ pc[r] # pc'[r])
          => links' = links]_vars

(***************************************************************************)
(* Properties of share(true) under interleaving and hash collisions        *)
(***************************************************************************)
\* C25 as stated: no share(true) request is answered with an error, also
\* when two of them of one user interleave; the one exception granted here
\* is a drawn hash that another user's record holds (C26).
ShareNeverFails ==
    [][\A r \in Reqs :
          (pc[r] = "share_create" /\ pc'[r] = "done" /\ resp'[r].status # 200)
          => \E l \in links :
                l.hash = local[r].hash /\ l.userId # local[r].userId]_vars

\* C26: no two share-link records hold the same hash, and the step in
\* which a share(true) request inserts a hash that another user's record
\* holds creates no record and answers 500.
HashesUnique ==
    /\ [](\A l1, l2 \in links : l1.hash = l2.hash => l1 = l2)
    /\ [][\A r \in Reqs :
            (/\ pc[r] = "share_create" /\ pc'[r] = "done"
             /\ \E l \in links :
                   l.hash = local[r].hash /\ l.userId # local[r].userId)
            => links' = links /\ resp'[r].status = 500]_vars

\* a share(true) request was answered 500 because the hash it drew is held
\* by the record of another user, and it has no record
HashCollisionRefused ==
    \E r \in Reqs, l \in links :
        /\ req[r].op = "share" /\ ShareTruthy(req[r].share) /\ Done(r)
        /\ resp[r].status = 500
        /\ l.hash = local[r].hash
        /\ l.userId # local[r].userId
        /\ LinksOf(local[r].userId) = {}

(***************************************************************************)
(* Properties of interleaved deletions                                     *)
(***************************************************************************)
\* C27 as stated: for each content id at most one deletion is answered with
\* success.
OneSuccessfulDeletePerRecord ==
    \A r1, r2 \in Reqs :
        (/\ Deletion(r1) /\ Deletion(r2)
         /\ req[r1].contentId = req[r2].contentId
         /\ resp[r1].status = 200 /\ resp[r2].status = 200)
        => r1 = r2

(***************************************************************************)
(* Properties of stored files                                              *)
(***************************************************************************)
\* C28 as stated: after a completed submission the file that its upload
\* step stored is the filePath of a persisted record; a rejected submission
\* leaves no stored file.
StoredFilesReferenced ==
    \A r \in Reqs :
        (Submission(r) /\ local[r].path # Undefined /\ local[r].path \in files)
        => \E c \in contents : c.filePath = local[r].path

\* C29 as stated: every persisted record that carries file metadata has
\* type documents.
FileMetadataOnlyOnDocuments ==
    \A c \in contents :
        (c.fileName # Undefined \/ c.filePath # Undefined \/ c.fileSize # -1)
        => c.type = <<"documents">>

(***************************************************************************)
(* Ownership                                                               *)
(***************************************************************************)
\* C30: a step of a request authenticated as user A leaves the content
\* records and the share links of every other user as they were, and every
\* record it adds is owned by A.
OwnRecordsOnly ==
    [][\A r \in Reqs :
          (pc[r] # pc'[r] /\ userMiddleware(req'[r].token).status = 0)
          => LET A == userMiddleware(req'[r].token).userId IN
             /\ \A B \in UserIds \ {A} :
                   /\ { c \in contents' : c.userId = B }
                        = { c \in contents : c.userId = B }
                   /\ { l \in links' : l.userId = B }
                        = { l \in links : l.userId = B }
             /\ \A c \in contents' \ contents : c.userId = A
             /\ \A l \in links' \ links : l.userId = A]_vars

\* a user has removed the own link while another user has a link, or has
\* deleted an own record while another user has records
RemovedOwnBesideOthers ==
    \E r \in Reqs :
        /\ Done(r)
        /\ resp[r].status = 200
        /\ \/ /\ ShareOff(r, local[r].userId)
              /\ \E l \in links : l.userId # local[r].userId
           \/ /\ Deletion(r)
              /\ \E c \in contents : c.userId # local[r].userId

====
